---- MODULE Spec2Model ----
(***************************************************************************)
(* Model of the command-line parsing engine of rusty-sharutils             *)
(* (core/src/lib.rs): parse_command_line, the validators and the catalog   *)
(* of option definitions.                                                  *)
(*                                                                         *)
(* A token (OsString) is a sequence of one-character strings.  An          *)
(* Option<T> is a sequence of length 0 (None) or 1 (Some(v)).  Indices of  *)
(* the code are 0-based; the sequences here are 1-based, so the code's     *)
(* args[i] is args[i + 1] below.                                           *)
(***************************************************************************)
EXTENDS Integers, Sequences, FiniteSets, TLC

VARIABLES option_definitions, args, executable_path, by_flag, by_name,
          options, arguments, i, pc, result,
          first_result, query, help, validator_calls, iterations

\* What the caller of the library holds: the result of an earlier call of
\* parse_command_line on the same input, the last query it made of a
\* ParsedCommand, and the text generate_help returned to it.
caller_vars == <<first_result, query, help>>

\* validator_calls is the sequence of the invocations of validators that the
\* current call of parse_command_line has made, and iterations the number of
\* times it has entered the body of its loop.

vars == <<option_definitions, args, executable_path, by_flag, by_name,
          options, arguments, i, pc, result, first_result, query, help,
          validator_calls, iterations>>

(***************************************************************************)
(* Bounds of the model.                                                    *)
(***************************************************************************)
\* Largest number of tokens that follow the executable path.
MaxArgs == 3

(***************************************************************************)
(* Option<T>                                                               *)
(***************************************************************************)
None == <<>>
Some(v) == <<v>>
IsSome(o) == Len(o) = 1
Unwrap(o) == o[1]

(***************************************************************************)
(* Characters.  InvalidByte stands for a byte that is not valid UTF-8 in   *)
(* an OsString; ReplacementChar is U+FFFD.                                 *)
(***************************************************************************)
InvalidByte == "<FF>"
ReplacementChar == "<U+FFFD>"

\* OsStr::to_string_lossy: invalid bytes become U+FFFD.
ToStringLossy(tok) ==
    [k \in 1..Len(tok) |-> IF tok[k] = InvalidByte THEN ReplacementChar ELSE tok[k]]

\* OsStr::to_str: None when the value is not valid UTF-8.
ToStr(tok) ==
    IF \E k \in 1..Len(tok) : tok[k] = InvalidByte THEN None ELSE Some(tok)

\* OsString::from(&str)
OsStringFrom(s) == s

\* str::starts_with('-') / starts_with("--")
StartsWith(s, prefix) ==
    /\ Len(s) >= Len(prefix)
    /\ SubSeq(s, 1, Len(prefix)) = prefix

\* str::find('='): the 0-based position of the first '=', or None.
FindEq(s) ==
    IF \E k \in 1..Len(s) : s[k] = "="
    THEN Some((CHOOSE k \in 1..Len(s) :
                  /\ s[k] = "="
                  /\ \A m \in 1..(k - 1) : s[m] # "=") - 1)
    ELSE None

\* &s[from..to] and &s[from..] with the code's 0-based byte positions.
Slice(s, from, to) == SubSeq(s, from + 1, to)
SliceFrom(s, from) == SubSeq(s, from + 1, Len(s))

(***************************************************************************)
(* ParseError and ValidationError                                          *)
(***************************************************************************)
\* The text of an error is a sequence of text pieces; a ValidationError is
\* represented by its only field, the message.
ValidationError(message) == message

ParseError(variant, payload) == [variant |-> variant, payload |-> payload]

Ok(v) == [ok |-> TRUE, value |-> v]
Err(e) == [ok |-> FALSE, error |-> e]

(***************************************************************************)
(* Validators                                                              *)
(***************************************************************************)
Digits == <<"0", "1", "2", "3", "4", "5", "6", "7", "8", "9">>
IsDigit(c) == \E d \in 1..10 : Digits[d] = c
DigitValue(c) == (CHOOSE d \in 1..10 : Digits[d] = c) - 1

\* The decimal digits of u32::MAX, 4294967295.
U32MaxDigits == <<"4", "2", "9", "4", "9", "6", "7", "2", "9", "5">>

RECURSIVE StripZeros(_)
\* A number is kept as its decimal digits without leading zeros (zero is <<>>).
StripZeros(s) ==
    IF Len(s) > 0 /\ s[1] = "0" THEN StripZeros(Tail(s)) ELSE s

RECURSIVE DigitsLeq(_, _)
\* a <= b for two digit sequences of the same length.
DigitsLeq(a, b) ==
    IF Len(a) = 0 THEN TRUE
    ELSE IF DigitValue(a[1]) < DigitValue(b[1]) THEN TRUE
    ELSE IF DigitValue(a[1]) > DigitValue(b[1]) THEN FALSE
    ELSE DigitsLeq(Tail(a), Tail(b))

\* The number fits a u32.
FitsU32(n) ==
    \/ Len(n) < Len(U32MaxDigits)
    \/ Len(n) = Len(U32MaxDigits) /\ DigitsLeq(n, U32MaxDigits)

\* The digits of <u32 as FromStr>: None on a non-digit or on overflow.
ParseDigits(s) ==
    IF Len(s) = 0 THEN None
    ELSE IF \E k \in 1..Len(s) : ~IsDigit(s[k]) THEN None
    ELSE IF ~FitsU32(StripZeros(s)) THEN None
    ELSE Some(StripZeros(s))

\* s.parse::<u32>(): an optional leading '+', then at least one digit.
ParseU32(s) ==
    IF Len(s) = 0 THEN None
    ELSE IF s[1] = "+" THEN ParseDigits(Tail(s))
    ELSE ParseDigits(s)

validate_positive_integer(value) ==
    IF ~IsSome(ToStr(value))
    THEN Err(ValidationError(<<"Invalid UTF-8 in number">>))
    ELSE IF ~IsSome(ParseU32(Unwrap(ToStr(value))))
    THEN Err(ValidationError(<<"Not a valid positive integer">>))
    ELSE IF Unwrap(ParseU32(Unwrap(ToStr(value)))) = <<>>
    THEN Err(ValidationError(<<"Value must be greater than zero">>))
    ELSE Ok(<<>>)

\* Calls the function a definition's validator field points to.
CallValidator(validator, value) ==
    IF validator = "validate_positive_integer"
    THEN validate_positive_integer(value)
    ELSE Ok(<<>>)

(***************************************************************************)
(* Option definitions                                                      *)
(***************************************************************************)
OptionDefinition(flag, name, has_value, default_value, validator) ==
    [flag |-> flag, name |-> name, has_value |-> has_value,
     default_value |-> default_value, validator |-> validator]

nHelp == <<"h", "e", "l", "p">>
nVersion == <<"v", "e", "r", "s", "i", "o", "n">>
nMode == <<"m", "o", "d", "e">>
nFile == <<"f", "i", "l", "e">>
nOutput == <<"o", "u", "t", "p", "u", "t">>
nLines == <<"l", "i", "n", "e", "s">>
nWidth == <<"w", "i", "d", "t", "h">>

standard_options ==
    << OptionDefinition("h", nHelp, FALSE, None, None),
       OptionDefinition("V", nVersion, FALSE, None, None) >>

\* The definitions the unit tests add to standard_options.
ModeOption == OptionDefinition("m", nMode, FALSE, None, None)
FileOption == OptionDefinition("f", nFile, TRUE, None, None)
OutputOption == OptionDefinition("o", nOutput, TRUE, Some(<<"d">>), None)

\* Value options with a validator: one without a default, one whose default the
\* validator accepts and one whose default it rejects.
LinesOption ==
    OptionDefinition("l", nLines, TRUE, None, Some("validate_positive_integer"))
WidthOption ==
    OptionDefinition("w", nWidth, TRUE, Some(<<"1">>), Some("validate_positive_integer"))
ZeroOption ==
    OptionDefinition("z", <<"z">>, TRUE, Some(<<"0">>), Some("validate_positive_integer"))

\* A value option whose default starts with '-'.
nInput == <<"i", "n", "p", "u", "t">>
StdinOption == OptionDefinition("i", nInput, TRUE, Some(<<"-">>), None)

\* Definitions that collide with standard_options: by flag, and by name.
SameFlagOption == OptionDefinition("h", nMode, FALSE, None, None)
SameNameOption == OptionDefinition("m", nHelp, FALSE, None, None)

(***************************************************************************)
(* parse_command_line                                                      *)
(***************************************************************************)
\* HashMap::insert and HashMap::contains_key
Insert(map, key, value) ==
    [k \in (DOMAIN map) \cup {key} |-> IF k = key THEN value ELSE map[k]]
ContainsKey(map, key) == key \in DOMAIN map

EmptyMap == <<>>

RECURSIVE BuildLookupTablesFromEnd(_, _, _, _)
\* Variant of BuildLookupTables: the entry of a name is the position counted
\* from the end of the catalog.
BuildLookupTablesFromEnd(defs, k, flags, names) ==
    IF k > Len(defs)
    THEN Ok([by_flag |-> flags, by_name |-> names])
    ELSE IF ContainsKey(flags, defs[k].flag)
    THEN Err(ParseError("DuplicateOption", <<"flag '", defs[k].flag, "'">>))
    ELSE IF ContainsKey(names, defs[k].name)
    THEN Err(ParseError("DuplicateOption", defs[k].name))
    ELSE BuildLookupTablesFromEnd(defs, k + 1, Insert(flags, defs[k].flag, k),
                                  Insert(names, defs[k].name, Len(defs) + 1 - k))

RECURSIVE BuildLookupTables(_, _, _, _)
\* The loop that builds by_flag and by_name; an entry is the position of the
\* definition it refers to.
BuildLookupTables(defs, k, flags, names) ==
    IF k > Len(defs)
    THEN Ok([by_flag |-> flags, by_name |-> names])
    ELSE IF ContainsKey(flags, defs[k].flag)
    THEN Err(ParseError("DuplicateOption", <<"flag '", defs[k].flag, "'">>))
    ELSE IF ContainsKey(names, defs[k].name)
    THEN Err(ParseError("DuplicateOption", defs[k].name))
    ELSE BuildLookupTables(defs, k + 1, Insert(flags, defs[k].flag, k),
                           Insert(names, defs[k].name, k))

\* Variant of NextTokenIsValue: any token after the cursor is taken.
NextTokenExists(argv, cur) == cur + 1 < Len(argv)

\* The condition under which the token after the cursor is taken as the value.
NextTokenIsValue(argv, cur) ==
    /\ cur + 1 < Len(argv)
    /\ ~StartsWith(ToStringLossy(argv[cur + 2]), <<"-">>)

\* Variant of LongFinalValue: a value-taking option without a value and without
\* a default is recorded without a value.
LongFinalValueNoneWhenMissing(def, value, argv, cur) ==
    IF def.has_value
    THEN IF IsSome(value)
         THEN Ok([final_value |-> value, i |-> cur])
         ELSE IF NextTokenIsValue(argv, cur)
         THEN Ok([final_value |-> Some(argv[cur + 2]), i |-> cur + 1])
         ELSE IF IsSome(def.default_value)
         THEN Ok([final_value |-> def.default_value, i |-> cur])
         ELSE Ok([final_value |-> None, i |-> cur])
    ELSE IF IsSome(value)
         THEN Err(ParseError("ValidationError",
                  ValidationError(<<"Option '">> \o def.name
                                  \o <<"' does not accept a value">>)))
         ELSE Ok([final_value |-> None, i |-> cur])

\* Variant of LongFinalValue: an inline value given to an option that takes no
\* value is dropped.
LongFinalValueDropsInline(def, value, argv, cur) ==
    IF def.has_value
    THEN IF IsSome(value)
         THEN Ok([final_value |-> value, i |-> cur])
         ELSE IF NextTokenIsValue(argv, cur)
         THEN Ok([final_value |-> Some(argv[cur + 2]), i |-> cur + 1])
         ELSE IF IsSome(def.default_value)
         THEN Ok([final_value |-> def.default_value, i |-> cur])
         ELSE Err(ParseError("MissingValue", def.name))
    ELSE Ok([final_value |-> None, i |-> cur])

\* Variant of LongFinalValue: an option that takes no value moves the cursor
\* past a following token that does not start with '-'.
LongFinalValueSkipsNext(def, value, argv, cur) ==
    IF def.has_value
    THEN IF IsSome(value)
         THEN Ok([final_value |-> value, i |-> cur])
         ELSE IF NextTokenIsValue(argv, cur)
         THEN Ok([final_value |-> Some(argv[cur + 2]), i |-> cur + 1])
         ELSE IF IsSome(def.default_value)
         THEN Ok([final_value |-> def.default_value, i |-> cur])
         ELSE Err(ParseError("MissingValue", def.name))
    ELSE IF IsSome(value)
         THEN Err(ParseError("ValidationError",
                  ValidationError(<<"Option '">> \o def.name
                                  \o <<"' does not accept a value">>)))
         ELSE IF NextTokenIsValue(argv, cur)
         THEN Ok([final_value |-> None, i |-> cur + 1])
         ELSE Ok([final_value |-> None, i |-> cur])

\* final_value of a long option: the value and the cursor after it.
LongFinalValue(def, value, argv, cur) ==
    IF def.has_value
    THEN IF IsSome(value)
         THEN Ok([final_value |-> value, i |-> cur])
         ELSE IF NextTokenIsValue(argv, cur)
         THEN Ok([final_value |-> Some(argv[cur + 2]), i |-> cur + 1])
         ELSE IF IsSome(def.default_value)
         THEN Ok([final_value |-> def.default_value, i |-> cur])
         ELSE Err(ParseError("MissingValue", def.name))
    ELSE IF IsSome(value)
         THEN Err(ParseError("ValidationError",
                  ValidationError(<<"Option '">> \o def.name
                                  \o <<"' does not accept a value">>)))
         ELSE Ok([final_value |-> None, i |-> cur])

\* Variant of Validate: the validator's result is dropped.
ValidateDropsResult(def, final_value) == Ok(<<>>)

\* The validator call that follows final_value.
Validate(def, final_value) ==
    IF IsSome(def.validator) /\ IsSome(final_value)
    THEN IF CallValidator(Unwrap(def.validator), Unwrap(final_value)).ok
         THEN Ok(<<>>)
         ELSE Err(ParseError("ValidationError",
                  CallValidator(Unwrap(def.validator), Unwrap(final_value)).error))
    ELSE Ok(<<>>)

\* The (option_name, value) pair a long-option token splits into.
SplitLong(arg_str) ==
    IF IsSome(FindEq(arg_str))
    THEN [option_name |-> Slice(arg_str, 2, Unwrap(FindEq(arg_str))),
          value |-> Some(OsStringFrom(SliceFrom(arg_str, Unwrap(FindEq(arg_str)) + 1)))]
    ELSE [option_name |-> SliceFrom(arg_str, 2), value |-> None]

\* Variant of LongOption: an option that is already recorded is recorded again.
LongOptionOverwrites(defs, names, argv, cur, opts) ==
    LET split == SplitLong(ToStringLossy(argv[cur + 1])) IN
    IF ~ContainsKey(names, split.option_name)
    THEN Err(ParseError("UnknownOption", <<"-", "-">> \o split.option_name))
    ELSE LET def == defs[names[split.option_name]]
             fv == LongFinalValue(def, split.value, argv, cur) IN
         IF ~fv.ok THEN fv
         ELSE IF ~Validate(def, fv.value.final_value).ok
         THEN Validate(def, fv.value.final_value)
         ELSE Ok([options |-> Insert(opts, def.name, fv.value.final_value),
                  i |-> fv.value.i])

\* Variant of LongOption: a name that is not in the catalog is skipped.
LongOptionSkipsUnknown(defs, names, argv, cur, opts) ==
    LET split == SplitLong(ToStringLossy(argv[cur + 1])) IN
    IF ~ContainsKey(names, split.option_name)
    THEN Ok([options |-> opts, i |-> cur])
    ELSE LET def == defs[names[split.option_name]]
             fv == LongFinalValue(def, split.value, argv, cur) IN
         IF ContainsKey(opts, def.name)
         THEN Err(ParseError("DuplicateOption", def.name))
         ELSE IF ~fv.ok THEN fv
         ELSE IF ~Validate(def, fv.value.final_value).ok
         THEN Validate(def, fv.value.final_value)
         ELSE Ok([options |-> Insert(opts, def.name, fv.value.final_value),
                  i |-> fv.value.i])

\* The long-option branch of the loop body: the options and the cursor it
\* leaves (before the loop's i += 1), or the error it returns.
LongOption(defs, names, argv, cur, opts) ==
    LET split == SplitLong(ToStringLossy(argv[cur + 1])) IN
    IF ~ContainsKey(names, split.option_name)
    THEN Err(ParseError("UnknownOption", <<"-", "-">> \o split.option_name))
    ELSE LET def == defs[names[split.option_name]]
             fv == LongFinalValue(def, split.value, argv, cur) IN
         IF ContainsKey(opts, def.name)
         THEN Err(ParseError("DuplicateOption", def.name))
         ELSE IF ~fv.ok THEN fv
         ELSE IF ~Validate(def, fv.value.final_value).ok
         THEN Validate(def, fv.value.final_value)
         ELSE Ok([options |-> Insert(opts, def.name, fv.value.final_value),
                  i |-> fv.value.i])

\* Variant of ShortFinalValue: a configured default wins over the next token.
\* Variant of ShortFinalValue: the next token is taken as the value and the
\* cursor stays on the option token.
ShortFinalValueKeepsCursor(def, argv, cur) ==
    IF NextTokenIsValue(argv, cur)
    THEN Ok([final_value |-> Some(argv[cur + 2]), i |-> cur])
    ELSE IF IsSome(def.default_value)
    THEN Ok([final_value |-> def.default_value, i |-> cur])
    ELSE Err(ParseError("MissingValue", def.name))

ShortFinalValueDefaultFirst(def, argv, cur) ==
    IF IsSome(def.default_value)
    THEN Ok([final_value |-> def.default_value, i |-> cur])
    ELSE IF NextTokenIsValue(argv, cur)
    THEN Ok([final_value |-> Some(argv[cur + 2]), i |-> cur + 1])
    ELSE Err(ParseError("MissingValue", def.name))

\* final_value of a value-taking short flag in last position.
ShortFinalValue(def, argv, cur) ==
    IF NextTokenIsValue(argv, cur)
    THEN Ok([final_value |-> Some(argv[cur + 2]), i |-> cur + 1])
    ELSE IF IsSome(def.default_value)
    THEN Ok([final_value |-> def.default_value, i |-> cur])
    ELSE Err(ParseError("MissingValue", def.name))

RECURSIVE ShortFlags(_, _, _, _, _, _, _)

RECURSIVE ShortFlagsAttachedValue(_, _, _, _, _, _, _)
\* Variant of ShortFlags: a value-taking flag that is not last takes the rest
\* of the group as its value.
ShortFlagsAttachedValue(defs, flags, argv, flag_chars, j, cur, opts) ==
    IF j >= Len(flag_chars)
    THEN Ok([options |-> opts, i |-> cur])
    ELSE IF ~ContainsKey(flags, flag_chars[j + 1])
    THEN Err(ParseError("UnknownOption", <<"-", flag_chars[j + 1]>>))
    ELSE LET def == defs[flags[flag_chars[j + 1]]]
             is_last_flag == (j = Len(flag_chars) - 1)
             fv == IF is_last_flag
                   THEN ShortFinalValue(def, argv, cur)
                   ELSE Ok([final_value |-> Some(SubSeq(flag_chars, j + 2, Len(flag_chars))),
                            i |-> cur]) IN
         IF ContainsKey(opts, def.name)
         THEN Err(ParseError("DuplicateOption", def.name))
         ELSE IF def.has_value
         THEN IF ~fv.ok THEN fv
              ELSE IF ~Validate(def, fv.value.final_value).ok
              THEN Validate(def, fv.value.final_value)
              ELSE Ok([options |-> Insert(opts, def.name, fv.value.final_value),
                       i |-> fv.value.i])
         ELSE ShortFlagsAttachedValue(defs, flags, argv, flag_chars, j + 1, cur,
                                      Insert(opts, def.name, None))

\* The loop over the characters of a short-flag group, from character j
\* (0-based) on.
ShortFlags(defs, flags, argv, flag_chars, j, cur, opts) ==
    IF j >= Len(flag_chars)
    THEN Ok([options |-> opts, i |-> cur])
    ELSE IF ~ContainsKey(flags, flag_chars[j + 1])
    THEN Err(ParseError("UnknownOption", <<"-", flag_chars[j + 1]>>))
    ELSE LET def == defs[flags[flag_chars[j + 1]]]
             is_last_flag == (j = Len(flag_chars) - 1)
             fv == ShortFinalValue(def, argv, cur) IN
         IF ContainsKey(opts, def.name)
         THEN Err(ParseError("DuplicateOption", def.name))
         ELSE IF def.has_value
         THEN IF ~is_last_flag
              THEN Err(ParseError("InvalidFlagCombination",
                      <<"Flag '", flag_chars[j + 1],
                        "' requires a value but is not the last in combination '">>
                      \o flag_chars \o <<"'">>))
              ELSE IF ~fv.ok THEN fv
              ELSE IF ~Validate(def, fv.value.final_value).ok
              THEN Validate(def, fv.value.final_value)
              ELSE ShortFlags(defs, flags, argv, flag_chars, j + 1, fv.value.i,
                              Insert(opts, def.name, fv.value.final_value))
         ELSE ShortFlags(defs, flags, argv, flag_chars, j + 1, cur,
                         Insert(opts, def.name, None))

\* Variant of ShortOption: every character of the group is looked up before
\* the first one is processed.
ShortOptionLooksUpFirst(defs, flags, argv, cur, opts) ==
    LET flag_chars == SliceFrom(ToStringLossy(argv[cur + 1]), 1) IN
    IF \E j \in 1..Len(flag_chars) : ~ContainsKey(flags, flag_chars[j])
    THEN Err(ParseError("UnknownOption",
             <<"-", flag_chars[CHOOSE j \in 1..Len(flag_chars) :
                                  /\ ~ContainsKey(flags, flag_chars[j])
                                  /\ \A m \in 1..(j - 1) :
                                        ContainsKey(flags, flag_chars[m])]>>))
    ELSE ShortFlags(defs, flags, argv, flag_chars, 0, cur, opts)

\* The short-flag branch of the loop body.
ShortOption(defs, flags, argv, cur, opts) ==
    ShortFlags(defs, flags, argv, SliceFrom(ToStringLossy(argv[cur + 1]), 1), 0,
               cur, opts)

(***************************************************************************)
(* The invocations of validators.  A call is the validator and the value   *)
(* it is handed; the operators below give the calls that a branch of the   *)
(* loop body makes, in the order it makes them.                            *)
(***************************************************************************)
ValidatorCall(validator, value) == [validator |-> validator, value |-> value]

\* Variant of ValidatorCalls: the validator is invoked a second time on the
\* same value.
ValidatorCallsTwice(def, fv) ==
    IF fv.ok /\ IsSome(def.validator) /\ IsSome(fv.value.final_value)
    THEN << ValidatorCall(Unwrap(def.validator), Unwrap(fv.value.final_value)),
            ValidatorCall(Unwrap(def.validator), Unwrap(fv.value.final_value)) >>
    ELSE <<>>

\* if let (Some(validator), Some(val)) = (def.validator, &final_value): the
\* call that follows a final_value that was worked out without an error.
ValidatorCalls(def, fv) ==
    IF fv.ok /\ IsSome(def.validator) /\ IsSome(fv.value.final_value)
    THEN << ValidatorCall(Unwrap(def.validator), Unwrap(fv.value.final_value)) >>
    ELSE <<>>

\* The calls of the long-option branch.
LongValidatorCalls(defs, names, argv, cur, opts) ==
    LET split == SplitLong(ToStringLossy(argv[cur + 1])) IN
    IF ~ContainsKey(names, split.option_name) THEN <<>>
    ELSE LET def == defs[names[split.option_name]] IN
         IF ContainsKey(opts, def.name) THEN <<>>
         ELSE ValidatorCalls(def, LongFinalValue(def, split.value, argv, cur))

RECURSIVE ShortValidatorCalls(_, _, _, _, _, _, _)
\* The calls of the short-flag branch, from character j (0-based) on.
ShortValidatorCalls(defs, flags, argv, flag_chars, j, cur, opts) ==
    IF j >= Len(flag_chars) THEN <<>>
    ELSE IF ~ContainsKey(flags, flag_chars[j + 1]) THEN <<>>
    ELSE LET def == defs[flags[flag_chars[j + 1]]]
             is_last_flag == (j = Len(flag_chars) - 1) IN
         IF ContainsKey(opts, def.name) THEN <<>>
         ELSE IF def.has_value
         THEN IF ~is_last_flag THEN <<>>
              ELSE ValidatorCalls(def, ShortFinalValue(def, argv, cur))
         ELSE ShortValidatorCalls(defs, flags, argv, flag_chars, j + 1, cur,
                                  Insert(opts, def.name, None))

\* The branch of the loop body the token under the cursor selects.
IsTerminator(tok) == ToStringLossy(tok) = <<"-", "-">>
IsLong(tok) == ~IsTerminator(tok) /\ StartsWith(ToStringLossy(tok), <<"-", "-">>)
\* Variant of IsShort: a dash alone is a short-flag group as well.
IsShortAnyDash(tok) ==
    /\ ~IsTerminator(tok)
    /\ ~IsLong(tok)
    /\ StartsWith(ToStringLossy(tok), <<"-">>)

IsShort(tok) ==
    /\ ~IsTerminator(tok)
    /\ ~IsLong(tok)
    /\ StartsWith(ToStringLossy(tok), <<"-">>)
    /\ Len(ToStringLossy(tok)) > 1
IsPositional(tok) == ~IsTerminator(tok) /\ ~IsLong(tok) /\ ~IsShort(tok)

\* The ParsedCommand the function returns.
ParsedCommand(path, opts, rest) ==
    [executable_path |-> path, options |-> opts, arguments |-> rest]

(***************************************************************************)
(* Inputs: catalogs and argument sequences                                 *)
(***************************************************************************)
Long(name) == <<"-", "-">> \o name
LongEq(name, value) == Long(name) \o <<"=">> \o value
Short(chars) == <<"-">> \o chars

nUnknown == <<"u", "n", "k", "n", "o", "w", "n">>
Exe == <<"t", "e", "s", "t", "-", "c", "m", "d">>

TestCatalog == standard_options \o <<ModeOption, FileOption, OutputOption>>
ValidatedCatalog == <<standard_options[1], LinesOption, WidthOption, ZeroOption>>

\* A scenario is a catalog, the executable paths and the tokens that the
\* argument sequences over it are built from.
Scenario(catalog, paths, tokens) ==
    [catalog |-> catalog, paths |-> paths, tokens |-> tokens]

Scenarios ==
    { \* bare flags, groups of them and unknown triggers
      Scenario(TestCatalog, {Exe},
        { <<"-", "-">>, <<"-">>, <<"1">>, Long(nHelp), Short(<<"h">>),
          Short(<<"h", "h">>), Short(<<"h", "m">>), Short(<<"x">>),
          Long(nUnknown), Short(<<"m", "x">>) }),
      \* value resolution from the next token and from the default
      Scenario(TestCatalog, {Exe},
        { <<"-", "-">>, <<"-">>, <<"1">>, <<>>, Long(nFile), Short(<<"f">>),
          Short(<<"m", "f">>), Short(<<"f", "m">>), Short(<<"f", "1">>),
          Short(<<"o">>), Long(nOutput), Short(<<"h">>) }),
      \* inline values
      Scenario(TestCatalog, {Exe},
        { LongEq(nFile, <<"1">>), LongEq(nFile, <<>>), LongEq(nFile, <<"-", "1">>),
          LongEq(nFile, <<"1", "=", "1">>), LongEq(nFile, <<InvalidByte>>),
          LongEq(nHelp, <<"1">>), LongEq(nHelp, <<>>), LongEq(nUnknown, <<"1">>),
          Long(nFile), Short(<<"f">>), <<"1">>, <<InvalidByte>> }),
      \* validated values
      Scenario(ValidatedCatalog, {Exe},
        { Long(nLines), LongEq(nLines, <<"0">>), LongEq(nLines, <<"1">>),
          Short(<<"l">>), Short(<<"w">>), Short(<<"z">>), Long(nWidth),
          Short(<<"h", "l">>), LongEq(nLines, <<InvalidByte>>), <<"0">>, <<"1">>,
          <<"+", "1">>, <<InvalidByte>> }),
      \* catalogs with a duplicate flag and with a duplicate name
      Scenario(standard_options \o <<SameFlagOption>>, {Exe},
        { <<"-", "-">>, <<"1">>, Short(<<"h">>), Long(nHelp), Long(nUnknown) }),
      Scenario(standard_options \o <<SameNameOption>>, {Exe},
        { <<"-", "-">>, <<"1">>, Short(<<"h">>), Long(nHelp), Long(nUnknown) }),
      \* a default that starts with '-'
      Scenario(<<standard_options[1], StdinOption>>, {Exe},
        { Short(<<"i">>), Long(nInput), LongEq(nInput, <<"-", "1">>), <<"-">>,
          <<"1">>, Short(<<"h">>) }),
      \* executable paths that look like options
      Scenario(standard_options,
        { Exe, Long(nHelp), Short(<<"x">>), <<"-", "-">>, Long(nUnknown), <<"-">> },
        { Long(nHelp), Short(<<"h">>), <<"1">> }) }

\* The sequences of at most n elements of S.
SeqsUpTo(S, n) == UNION { [1..k -> S] : k \in 0..n }

\* The argument sequences of a scenario: the empty one, and an executable
\* path followed by at most MaxArgs tokens.
Inputs(s) ==
    { <<>> } \cup { <<p>> \o t : p \in s.paths, t \in SeqsUpTo(s.tokens, MaxArgs) }

(***************************************************************************)
(* The state machine                                                       *)
(***************************************************************************)
Init ==
    /\ \E s \in Scenarios :
          /\ option_definitions = s.catalog
          /\ args \in Inputs(s)
    /\ executable_path = None
    /\ by_flag = EmptyMap
    /\ by_name = EmptyMap
    /\ options = EmptyMap
    /\ arguments = <<>>
    /\ i = 0
    /\ pc = "start"
    /\ result = None
    /\ first_result = None
    /\ query = None
    /\ help = None
    /\ validator_calls = <<>>
    /\ iterations = 0

\* Variant of Start: the options mapping is not created anew by the call.
StartKeepsOptions ==
    /\ pc = "start"
    /\ IF args = <<>>
       THEN /\ result' = Some(Err(ParseError("UnknownOption",
                                             <<"No executable path provided">>)))
            /\ pc' = "done"
            /\ UNCHANGED <<args, executable_path, by_flag, by_name, options,
                           arguments, i>>
       ELSE /\ executable_path' = Some(Head(args))
            /\ args' = Tail(args)
            /\ LET tables == BuildLookupTables(option_definitions, 1, EmptyMap, EmptyMap) IN
               IF tables.ok
               THEN /\ by_flag' = tables.value.by_flag
                    /\ by_name' = tables.value.by_name
                    /\ arguments' = <<>>
                    /\ i' = 0
                    /\ pc' = "scan"
                    /\ UNCHANGED <<result, options>>
               ELSE /\ result' = Some(tables)
                    /\ pc' = "done"
                    /\ UNCHANGED <<by_flag, by_name, options, arguments, i>>
    /\ UNCHANGED option_definitions
    /\ UNCHANGED caller_vars
    /\ validator_calls' = <<>>
    /\ iterations' = 0

\* Variant of Start: the lookup tables are built before the empty check.
StartBuildsTablesFirst ==
    /\ pc = "start"
    /\ LET tables == BuildLookupTables(option_definitions, 1, EmptyMap, EmptyMap) IN
       IF ~tables.ok
       THEN /\ result' = Some(tables)
            /\ pc' = "done"
            /\ UNCHANGED <<args, executable_path, by_flag, by_name, options,
                           arguments, i>>
       ELSE IF args = <<>>
       THEN /\ result' = Some(Err(ParseError("UnknownOption",
                                             <<"No executable path provided">>)))
            /\ pc' = "done"
            /\ UNCHANGED <<args, executable_path, by_flag, by_name, options,
                           arguments, i>>
       ELSE /\ executable_path' = Some(Head(args))
            /\ args' = Tail(args)
            /\ by_flag' = tables.value.by_flag
            /\ by_name' = tables.value.by_name
            /\ options' = EmptyMap
            /\ arguments' = <<>>
            /\ i' = 0
            /\ pc' = "scan"
            /\ UNCHANGED result
    /\ UNCHANGED option_definitions
    /\ UNCHANGED caller_vars
    /\ validator_calls' = <<>>
    /\ iterations' = 0

\* From the entry of parse_command_line to the loop: the empty check, the
\* executable path, the lookup tables and the locals of the scan, which every
\* call creates anew.
Start ==
    /\ pc = "start"
    /\ IF args = <<>>
       THEN /\ result' = Some(Err(ParseError("UnknownOption",
                                             <<"No executable path provided">>)))
            /\ pc' = "done"
            /\ UNCHANGED <<args, executable_path, by_flag, by_name, options,
                           arguments, i>>
       ELSE /\ executable_path' = Some(Head(args))
            /\ args' = Tail(args)
            /\ LET tables == BuildLookupTables(option_definitions, 1, EmptyMap, EmptyMap) IN
               IF tables.ok
               THEN /\ by_flag' = tables.value.by_flag
                    /\ by_name' = tables.value.by_name
                    /\ options' = EmptyMap
                    /\ arguments' = <<>>
                    /\ i' = 0
                    /\ pc' = "scan"
                    /\ UNCHANGED result
               ELSE /\ result' = Some(tables)
                    /\ pc' = "done"
                    /\ UNCHANGED <<by_flag, by_name, options, arguments, i>>
    /\ UNCHANGED option_definitions
    /\ UNCHANGED caller_vars
    /\ validator_calls' = <<>>
    /\ iterations' = 0

RECURSIVE WithDefaults(_, _, _)
\* opts with the default of every definition from position k on that has one
\* and is not a key.
WithDefaults(defs, k, opts) ==
    IF k > Len(defs) THEN opts
    ELSE IF IsSome(defs[k].default_value) /\ ~ContainsKey(opts, defs[k].name)
    THEN WithDefaults(defs, k + 1, Insert(opts, defs[k].name, defs[k].default_value))
    ELSE WithDefaults(defs, k + 1, opts)

\* Variant of Return: options that were not given get their default.
ReturnFillsDefaults(opts, rest) ==
    Some(Ok(ParsedCommand(Unwrap(executable_path),
                          WithDefaults(option_definitions, 1, opts), rest)))

\* The return at the end of the function.
Return(opts, rest) == Some(Ok(ParsedCommand(Unwrap(executable_path), opts, rest)))

\* Variant of ScanTerminator: the slice starts at the terminator itself.
ScanTerminatorFromCursor ==
    /\ pc = "scan"
    /\ i < Len(args)
    /\ IsTerminator(args[i + 1])
    /\ arguments' = arguments \o SubSeq(args, i + 1, Len(args))
    /\ result' = Return(options, arguments')
    /\ pc' = "done"
    /\ UNCHANGED <<option_definitions, args, executable_path, by_flag, by_name,
                   options, i>>
    /\ UNCHANGED caller_vars
    /\ iterations' = iterations + 1
    /\ UNCHANGED validator_calls

\* Loop body, token "--": the rest become arguments, break, return.
ScanTerminator ==
    /\ pc = "scan"
    /\ i < Len(args)
    /\ IsTerminator(args[i + 1])
    /\ arguments' = arguments \o SubSeq(args, i + 2, Len(args))
    /\ result' = Return(options, arguments')
    /\ pc' = "done"
    /\ UNCHANGED <<option_definitions, args, executable_path, by_flag, by_name,
                   options, i>>
    /\ UNCHANGED caller_vars
    /\ iterations' = iterations + 1
    /\ UNCHANGED validator_calls

\* Loop body, long option, and the loop's i += 1.
\* Variant of ScanLong: the cursor is not moved past the option token.
ScanLongKeepsCursor ==
    /\ pc = "scan"
    /\ i < Len(args)
    /\ IsLong(args[i + 1])
    /\ LET r == LongOption(option_definitions, by_name, args, i, options) IN
       IF r.ok
       THEN /\ options' = r.value.options
            /\ i' = r.value.i
            /\ UNCHANGED <<pc, result>>
       ELSE /\ result' = Some(r)
            /\ pc' = "done"
            /\ UNCHANGED <<options, i>>
    /\ UNCHANGED <<option_definitions, args, executable_path, by_flag, by_name,
                   arguments>>
    /\ UNCHANGED caller_vars
    /\ iterations' = iterations + 1
    /\ validator_calls' = validator_calls
          \o LongValidatorCalls(option_definitions, by_name, args, i, options)

ScanLong ==
    /\ pc = "scan"
    /\ i < Len(args)
    /\ IsLong(args[i + 1])
    /\ LET r == LongOption(option_definitions, by_name, args, i, options) IN
       IF r.ok
       THEN /\ options' = r.value.options
            /\ i' = r.value.i + 1
            /\ UNCHANGED <<pc, result>>
       ELSE /\ result' = Some(r)
            /\ pc' = "done"
            /\ UNCHANGED <<options, i>>
    /\ UNCHANGED <<option_definitions, args, executable_path, by_flag, by_name,
                   arguments>>
    /\ UNCHANGED caller_vars
    /\ iterations' = iterations + 1
    /\ validator_calls' = validator_calls
          \o LongValidatorCalls(option_definitions, by_name, args, i, options)

\* Loop body, short flag group, and the loop's i += 1.
ScanShort ==
    /\ pc = "scan"
    /\ i < Len(args)
    /\ IsShort(args[i + 1])
    /\ LET r == ShortOption(option_definitions, by_flag, args, i, options) IN
       IF r.ok
       THEN /\ options' = r.value.options
            /\ i' = r.value.i + 1
            /\ UNCHANGED <<pc, result>>
       ELSE /\ result' = Some(r)
            /\ pc' = "done"
            /\ UNCHANGED <<options, i>>
    /\ UNCHANGED <<option_definitions, args, executable_path, by_flag, by_name,
                   arguments>>
    /\ UNCHANGED caller_vars
    /\ iterations' = iterations + 1
    /\ validator_calls' = validator_calls
          \o ShortValidatorCalls(option_definitions, by_flag, args,
                SliceFrom(ToStringLossy(args[i + 1]), 1), 0, i, options)

\* Variant of ScanPositional: only the token under the cursor becomes an
\* argument and the scan goes on with the next token.
ScanPositionalOneToken ==
    /\ pc = "scan"
    /\ i < Len(args)
    /\ IsPositional(args[i + 1])
    /\ arguments' = Append(arguments, args[i + 1])
    /\ i' = i + 1
    /\ UNCHANGED <<option_definitions, args, executable_path, by_flag, by_name,
                   options, pc, result>>
    /\ UNCHANGED caller_vars
    /\ iterations' = iterations + 1
    /\ UNCHANGED validator_calls

\* Loop body, regular argument: it and the rest become arguments, break, return.
ScanPositional ==
    /\ pc = "scan"
    /\ i < Len(args)
    /\ IsPositional(args[i + 1])
    /\ arguments' = arguments \o SubSeq(args, i + 1, Len(args))
    /\ result' = Return(options, arguments')
    /\ pc' = "done"
    /\ UNCHANGED <<option_definitions, args, executable_path, by_flag, by_name,
                   options, i>>
    /\ UNCHANGED caller_vars
    /\ iterations' = iterations + 1
    /\ UNCHANGED validator_calls

\* The loop condition fails: return.
Finish ==
    /\ pc = "scan"
    /\ i >= Len(args)
    /\ result' = Return(options, arguments)
    /\ pc' = "done"
    /\ UNCHANGED <<option_definitions, args, executable_path, by_flag, by_name,
                   options, arguments, i>>
    /\ UNCHANGED caller_vars
    /\ UNCHANGED iterations
    /\ UNCHANGED validator_calls

Next ==
    \/ Start
    \/ ScanTerminator
    \/ ScanLong
    \/ ScanShort
    \/ ScanPositional
    \/ Finish

Spec == Init /\ [][Next]_vars

(***************************************************************************)
(* Two calls in a row.  The caller keeps the result of the first call and  *)
(* calls parse_command_line again with the same catalog and the same       *)
(* argument sequence; what the first call left in the variables of the     *)
(* function is still there when the second call starts.                    *)
(***************************************************************************)
\* The catalogs and tokens of the inputs that are parsed twice.
TwiceScenarios ==
    { Scenario(TestCatalog, {Exe},
        { <<"-", "-">>, <<"1">>, Long(nHelp), Short(<<"h", "m">>), Short(<<"f">>),
          LongEq(nFile, <<"1">>), Short(<<"o">>), Long(nUnknown) }),
      Scenario(ValidatedCatalog, {Exe},
        { Long(nLines), Short(<<"w">>), Short(<<"z">>), <<"0">>, <<"1">>,
          <<InvalidByte>> }),
      Scenario(standard_options \o <<SameFlagOption>>, {Exe}, { Short(<<"h">>) }) }

InitTwice ==
    /\ \E s \in TwiceScenarios :
          /\ option_definitions = s.catalog
          /\ args \in Inputs(s)
    /\ executable_path = None
    /\ by_flag = EmptyMap
    /\ by_name = EmptyMap
    /\ options = EmptyMap
    /\ arguments = <<>>
    /\ i = 0
    /\ pc = "start"
    /\ result = None
    /\ first_result = None
    /\ query = None
    /\ help = None
    /\ validator_calls = <<>>
    /\ iterations = 0

\* The argument sequence the function was called with.
Input == IF IsSome(executable_path) THEN <<Unwrap(executable_path)>> \o args ELSE args

\* The caller keeps the result and calls again with the same arguments.
CallAgain ==
    /\ pc = "done"
    /\ first_result = None
    /\ first_result' = result
    /\ args' = Input
    /\ executable_path' = None
    /\ result' = None
    /\ pc' = "start"
    /\ UNCHANGED <<option_definitions, by_flag, by_name, options, arguments, i,
                   query, help, validator_calls, iterations>>

NextTwice ==
    \/ Start
    \/ ScanTerminator
    \/ ScanLong
    \/ ScanShort
    \/ ScanPositional
    \/ Finish
    \/ CallAgain

SpecTwice == InitTwice /\ [][NextTwice]_vars

(***************************************************************************)
(* ParsedCommand: the four queries                                         *)
(***************************************************************************)
\* HashMap::get
Get(map, key) == IF ContainsKey(map, key) THEN Some(map[key]) ELSE None

is_option_set(self, name) == ContainsKey(self.options, name)

\* get(name).and_then(|v| v.as_deref())
option_value(self, name) ==
    IF IsSome(Get(self.options, name)) THEN Unwrap(Get(self.options, name)) ELSE None

\* Variant of option_value_or_default: the default is returned only for a name
\* that is not a key; a key without a value gives the empty string.
OptionValueOrDefaultWhenAbsent(self, name, default) ==
    IF ~is_option_set(self, name) THEN default
    ELSE IF IsSome(option_value(self, name)) THEN Unwrap(option_value(self, name))
    ELSE <<>>

\* option_value(name).unwrap_or(default)
option_value_or_default(self, name, default) ==
    IF IsSome(option_value(self, name))
    THEN Unwrap(option_value(self, name))
    ELSE default

\* get(name).map_or(false, |v| v.is_some())
has_option_value(self, name) ==
    IF IsSome(Get(self.options, name))
    THEN IsSome(Unwrap(Get(self.options, name)))
    ELSE FALSE

(***************************************************************************)
(* A caller that holds a ParsedCommand and queries it.                     *)
(***************************************************************************)
nTest == <<"t", "e", "s", "t">>
nMissing == <<"m", "i", "s", "s", "i", "n", "g">>

\* The keys and the entries of the options mappings that are queried, the
\* names that are asked for and the defaults that are handed in.
QueryKeys == { nTest, nHelp, nFile }
QueryEntries == { None, Some(<<>>), Some(<<"v", "a", "l", "u", "e">>) }
QueryNames == QueryKeys \cup { nMissing }
QueryDefaults == { <<"d", "e", "f", "a", "u", "l", "t">>, <<>> }

\* Every mapping from a set of the keys to the entries.
QueryMappings == UNION { [K -> QueryEntries] : K \in SUBSET QueryKeys }

InitQueries ==
    /\ option_definitions = standard_options
    /\ args = <<>>
    /\ executable_path = Some(Exe)
    /\ by_flag = EmptyMap
    /\ by_name = EmptyMap
    /\ options = EmptyMap
    /\ arguments = <<>>
    /\ i = 0
    /\ pc = "done"
    /\ \E opts \in QueryMappings : result = Some(Ok(ParsedCommand(Exe, opts, <<>>)))
    /\ first_result = None
    /\ query = None
    /\ help = None
    /\ validator_calls = <<>>
    /\ iterations = 0

\* The ParsedCommand the caller holds.
Self == Unwrap(result).value

\* A call of a query and what it returned.
Query(method, name, default, returned) ==
    Some([method |-> method, name |-> name, default |-> default,
          returned |-> returned])

IsOptionSet ==
    /\ \E name \in QueryNames :
          query' = Query("is_option_set", name, None, is_option_set(Self, name))
    /\ UNCHANGED <<option_definitions, args, executable_path, by_flag, by_name,
                   options, arguments, i, pc, result, first_result, help,
                   validator_calls, iterations>>

OptionValue ==
    /\ \E name \in QueryNames :
          query' = Query("option_value", name, None, option_value(Self, name))
    /\ UNCHANGED <<option_definitions, args, executable_path, by_flag, by_name,
                   options, arguments, i, pc, result, first_result, help,
                   validator_calls, iterations>>

OptionValueOrDefault ==
    /\ \E name \in QueryNames, default \in QueryDefaults :
          query' = Query("option_value_or_default", name, Some(default),
                         option_value_or_default(Self, name, default))
    /\ UNCHANGED <<option_definitions, args, executable_path, by_flag, by_name,
                   options, arguments, i, pc, result, first_result, help,
                   validator_calls, iterations>>

HasOptionValue ==
    /\ \E name \in QueryNames :
          query' = Query("has_option_value", name, None, has_option_value(Self, name))
    /\ UNCHANGED <<option_definitions, args, executable_path, by_flag, by_name,
                   options, arguments, i, pc, result, first_result, help,
                   validator_calls, iterations>>

NextQueries ==
    \/ IsOptionSet
    \/ OptionValue
    \/ OptionValueOrDefault
    \/ HasOptionValue

SpecQueries == InitQueries /\ [][NextQueries]_vars

(***************************************************************************)
(* generate_help.  A text is a sequence of pieces; the line feed is a      *)
(* piece of its own, and the flags of an option line are single            *)
(* characters, so that the padding can count them.                         *)
(***************************************************************************)
LineFeed == "<LF>"

\* The width of the flags column in "  {:<20} {}\n".
FlagsWidth == 20

RECURSIVE Spaces(_)
Spaces(n) == IF n <= 0 THEN <<>> ELSE <<" ">> \o Spaces(n - 1)

\* format!("{:<20}", s): s, filled with spaces on the right up to the width.
PadRight(s, width) == s \o Spaces(width - Len(s))

\* A definition with its help_text.
WithHelpText(def, help_text) ==
    [flag |-> def.flag, name |-> def.name, has_value |-> def.has_value,
     default_value |-> def.default_value, validator |-> def.validator,
     help_text |-> help_text]

\* The body of the for loop: the line of one definition.
HelpOptionLine(def) ==
    LET short_flag == <<"-", def.flag>>
        long_flag == <<"-", "-">> \o def.name
        flags == short_flag \o <<",", " ">> \o long_flag IN
    <<" ", " ">> \o PadRight(flags, FlagsWidth) \o <<" ">> \o def.help_text
    \o <<LineFeed>>

RECURSIVE HelpOptionLines(_, _, _)
\* The for loop over option_definitions from position k on.
HelpOptionLines(defs, k, text) ==
    IF k > Len(defs) THEN text
    ELSE HelpOptionLines(defs, k + 1, text \o HelpOptionLine(defs[k]))

\* The text before the loop.
HelpHeader(command_name, description, usage_pattern) ==
    <<"Usage: ">> \o command_name \o <<" ">> \o usage_pattern \o <<LineFeed, LineFeed>>
    \o description \o <<LineFeed, LineFeed>>
    \o <<"Options:", LineFeed>>

\* Variant of generate_help: the options are listed from the last to the first.
GenerateHelpLastFirst(command_name, description, usage_pattern, defs) ==
    HelpOptionLines([k \in 1..Len(defs) |-> defs[Len(defs) + 1 - k]], 1,
                    HelpHeader(command_name, description, usage_pattern))

generate_help(command_name, description, usage_pattern, defs) ==
    HelpOptionLines(defs, 1, HelpHeader(command_name, description, usage_pattern))

(***************************************************************************)
(* A caller that renders the help of a catalog.                            *)
(***************************************************************************)
\* Largest number of definitions of a catalog that is rendered.
MaxHelpDefs == 3

nEncodeFileName ==
    <<"e", "n", "c", "o", "d", "e", "-", "f", "i", "l", "e", "-", "n", "a", "m", "e">>

\* The definitions the catalogs are made of; the flags of the last one are
\* wider than the column.
HelpDefinitions ==
    { WithHelpText(standard_options[1], <<"Display this help message and exit">>),
      WithHelpText(standard_options[2], <<"Display version information and exit">>),
      WithHelpText(FileOption, <<"File path">>),
      WithHelpText(OptionDefinition("e", nEncodeFileName, FALSE, None, None),
                   <<"Encode the output file name">>) }

\* The parse results the caller may hold when it renders the help.
HelpParseResults ==
    { None,
      Some(Ok(ParsedCommand(Exe, [n \in {nFile, nHelp} |->
                                     IF n = nFile THEN Some(<<"1">>) ELSE None], <<>>))) }

InitHelp ==
    /\ option_definitions \in SeqsUpTo(HelpDefinitions, MaxHelpDefs)
    /\ args = <<>>
    /\ executable_path = None
    /\ by_flag = EmptyMap
    /\ by_name = EmptyMap
    /\ options = EmptyMap
    /\ arguments = <<>>
    /\ i = 0
    /\ pc = "done"
    /\ result \in HelpParseResults
    /\ first_result = None
    /\ query = None
    /\ help = None
    /\ validator_calls = <<>>
    /\ iterations = 0

\* A call of generate_help: what was handed in and the text that came back.
GenerateHelp ==
    /\ help = None
    /\ \E command_name \in { <<"testcmd">>, <<"uuencode">> },
          description \in { <<"Test command">> },
          usage_pattern \in { <<"[OPTIONS] files...">>, <<>> } :
          help' = Some([command_name |-> command_name,
                        description |-> description,
                        usage_pattern |-> usage_pattern,
                        text |-> generate_help(command_name, description,
                                               usage_pattern, option_definitions)])
    /\ UNCHANGED <<option_definitions, args, executable_path, by_flag, by_name,
                   options, arguments, i, pc, result, first_result, query,
                   validator_calls, iterations>>

NextHelp == GenerateHelp

SpecHelp == InitHelp /\ [][NextHelp]_vars

(***************************************************************************)
(* The same catalog in every order of its definitions.                     *)
(***************************************************************************)
\* The catalogs that are permuted and the tokens of their inputs.
OrderScenarios ==
    { Scenario(<<standard_options[1], ModeOption, LinesOption, OutputOption>>, {Exe},
        { Short(<<"h", "m">>), Long(nLines), Short(<<"l">>), LongEq(nOutput, <<"1">>),
          Short(<<"o">>), <<"0">>, <<"1">>, <<"-", "-">> }) }

\* The catalogs that hold the definitions of c in some order.
Reorderings(c) ==
    { [k \in 1..Len(c) |-> c[p[k]]] : p \in Permutations(1..Len(c)) }

InitOrder ==
    /\ \E s \in OrderScenarios :
          /\ option_definitions \in Reorderings(s.catalog)
          /\ args \in Inputs(s)
    /\ executable_path = None
    /\ by_flag = EmptyMap
    /\ by_name = EmptyMap
    /\ options = EmptyMap
    /\ arguments = <<>>
    /\ i = 0
    /\ pc = "start"
    /\ result = None
    /\ first_result = None
    /\ query = None
    /\ help = None
    /\ validator_calls = <<>>
    /\ iterations = 0

SpecOrder == InitOrder /\ [][Next]_vars

(***************************************************************************)
(* parse_command_line as a function of the catalog and the argument        *)
(* sequence: the same entry code and loop body, run to the return.         *)
(***************************************************************************)
RECURSIVE ScanLoop(_, _, _, _, _, _, _)
\* The while loop from cursor cur on.
ScanLoop(defs, flags, names, path, argv, cur, opts) ==
    IF cur >= Len(argv)
    THEN Ok(ParsedCommand(path, opts, <<>>))
    ELSE IF IsTerminator(argv[cur + 1])
    THEN Ok(ParsedCommand(path, opts, SubSeq(argv, cur + 2, Len(argv))))
    ELSE IF IsLong(argv[cur + 1])
    THEN LET r == LongOption(defs, names, argv, cur, opts) IN
         IF r.ok
         THEN ScanLoop(defs, flags, names, path, argv, r.value.i + 1, r.value.options)
         ELSE r
    ELSE IF IsShort(argv[cur + 1])
    THEN LET r == ShortOption(defs, flags, argv, cur, opts) IN
         IF r.ok
         THEN ScanLoop(defs, flags, names, path, argv, r.value.i + 1, r.value.options)
         ELSE r
    ELSE Ok(ParsedCommand(path, opts, SubSeq(argv, cur + 1, Len(argv))))

\* Variant of parse_command_line: the scan starts at the executable path.
ParseScansExecutablePath(defs, input) ==
    IF input = <<>>
    THEN Err(ParseError("UnknownOption", <<"No executable path provided">>))
    ELSE LET tables == BuildLookupTables(defs, 1, EmptyMap, EmptyMap) IN
         IF ~tables.ok THEN tables
         ELSE ScanLoop(defs, tables.value.by_flag, tables.value.by_name,
                       Head(input), input, 0, EmptyMap)

parse_command_line(defs, input) ==
    IF input = <<>>
    THEN Err(ParseError("UnknownOption", <<"No executable path provided">>))
    ELSE LET tables == BuildLookupTables(defs, 1, EmptyMap, EmptyMap) IN
         IF ~tables.ok THEN tables
         ELSE ScanLoop(defs, tables.value.by_flag, tables.value.by_name,
                       Head(input), Tail(input), 0, EmptyMap)

\* The steps of the state machine end in the result of the function.
ResultIsFunctionOfInput ==
    pc = "done" => result = Some(parse_command_line(option_definitions, Input))

(***************************************************************************)
(* Vocabulary of the properties.  It reads the catalog and the tokens      *)
(* directly, not through the operators of the parser.                      *)
(***************************************************************************)
Defs == { option_definitions[k] : k \in 1..Len(option_definitions) }
DefNamed(n) == CHOOSE d \in Defs : d.name = n
DefFlagged(c) == CHOOSE d \in Defs : d.flag = c
IsName(n) == \E d \in Defs : d.name = n
IsFlag(c) == \E d \in Defs : d.flag = c

\* The catalog has pairwise distinct flags and pairwise distinct names.
DuplicateFree ==
    \A a, b \in 1..Len(option_definitions) :
        a # b => /\ option_definitions[a].flag # option_definitions[b].flag
                 /\ option_definitions[a].name # option_definitions[b].name

Dash(tok) == Len(tok) >= 1 /\ tok[1] = "-"
DashDash(tok) == Len(tok) >= 2 /\ tok[1] = "-" /\ tok[2] = "-"
HasEq(tok) == \E k \in 1..Len(tok) : tok[k] = "="

\* The scan is about to read the token under the cursor.
AtToken == pc = "scan" /\ i < Len(args)
Cur == args[i + 1]

\* The token under the cursor is a long option / a short-flag group.
LongToken == AtToken /\ DashDash(Cur) /\ Len(Cur) > 2
GroupToken == AtToken /\ Dash(Cur) /\ Len(Cur) > 1 /\ ~DashDash(Cur)

\* The name part of a long-option token: between "--" and the first '='.
NamePart(tok) ==
    IF HasEq(tok)
    THEN SubSeq(tok, 3, (CHOOSE k \in 1..Len(tok) :
                            tok[k] = "=" /\ \A m \in 1..(k - 1) : tok[m] # "=") - 1)
    ELSE SubSeq(tok, 3, Len(tok))

\* The value part of a long-option token with '=': what follows the first '=',
\* in the string form the token is split in.
InlineValue(tok) == ToStringLossy(SubSeq(tok, Len(NamePart(tok)) + 4, Len(tok)))

\* The characters of a short-flag group.
GroupChars(tok) == SubSeq(tok, 2, Len(tok))

\* The positions of the characters of the group under the cursor.
GroupPositions == IF GroupToken THEN 1..Len(GroupChars(Cur)) ELSE {}

\* The characters before position j of the group under the cursor are flags of
\* distinct options that take no value and were not recorded before: the
\* character loop records them and gets to character j.
GroupReaches(j) ==
    /\ GroupToken
    /\ j \in 1..Len(GroupChars(Cur))
    /\ \A k \in 1..(j - 1) :
          /\ IsFlag(GroupChars(Cur)[k])
          /\ ~DefFlagged(GroupChars(Cur)[k]).has_value
          /\ DefFlagged(GroupChars(Cur)[k]).name \notin DOMAIN options
          /\ \A m \in 1..(k - 1) : GroupChars(Cur)[m] # GroupChars(Cur)[k]

\* The outcome of the step: the error variant returned, or the scan goes on.
Failed(r, variant) == IsSome(r) /\ ~Unwrap(r).ok /\ Unwrap(r).error.variant = variant
Succeeded(r) == IsSome(r) /\ Unwrap(r).ok

\* The token after the cursor exists and does not start with '-'.
NextIsValue == i + 2 <= Len(args) /\ ~Dash(args[i + 2])

\* The validator of d, if any, accepts v.
Accepts(d, v) == IsSome(d.validator) => CallValidator(Unwrap(d.validator), v).ok

(***************************************************************************)
(* C1                                                                      *)
(***************************************************************************)
\* The option d gets to value resolution at the token under the cursor: a long
\* option without '=', or the last flag of a group, of a value-taking option
\* that is not recorded yet.
ResolvesValue(d) ==
    /\ d \in Defs
    /\ d.has_value
    /\ d.name \notin DOMAIN options
    /\ \/ LongToken /\ ~HasEq(Cur) /\ NamePart(Cur) = d.name
       \/ /\ GroupReaches(Len(GroupChars(Cur)))
          /\ GroupChars(Cur)[Len(GroupChars(Cur))] = d.flag

\* What value resolution must do for d, as a step of the scan.
ValueResolutionStep(d) ==
    IF NextIsValue
    THEN IF Accepts(d, args[i + 2])
         THEN /\ pc' = "scan"
              /\ i' = i + 2
              /\ d.name \in DOMAIN options'
              /\ options'[d.name] = Some(args[i + 2])
         ELSE Failed(result', "ValidationError")
    ELSE IF IsSome(d.default_value)
    THEN IF Accepts(d, Unwrap(d.default_value))
         THEN /\ pc' = "scan"
              /\ i' = i + 1
              /\ d.name \in DOMAIN options'
              /\ options'[d.name] = d.default_value
         ELSE Failed(result', "ValidationError")
    ELSE Failed(result', "MissingValue")

\* C1: when a value-taking option gets to value resolution without an inline
\* value, the next token is taken as the value and the cursor moves past it if
\* that token exists and does not start with '-' (also when the option has a
\* default, and never when the token is "-" or "--"); otherwise the default is
\* taken and no token is consumed; otherwise the parse fails with MissingValue.
C1_ValueResolution ==
    [][\A d \in Defs : ResolvesValue(d) => ValueResolutionStep(d)]_vars

\* An option with a default took the next token as its value.
C1_Witness ==
    /\ pc = "scan"
    /\ i = 2
    /\ args[1] = Short(<<"o">>)
    /\ IsSome(OutputOption.default_value)
    /\ nOutput \in DOMAIN options
    /\ options[nOutput] = Some(args[2])

(***************************************************************************)
(* C2, C3                                                                  *)
(***************************************************************************)
\* The step returns a ParsedCommand with the options recorded so far and the
\* tokens from position k (1-based) on as its arguments.
StopsWithRest(k) ==
    /\ pc' = "done"
    /\ Succeeded(result')
    /\ Unwrap(result').value.arguments = SubSeq(args, k, Len(args))
    /\ Unwrap(result').value.options = options

\* C2: when the cursor reaches a token that is exactly "--", the parse succeeds
\* with the options recorded so far, and the arguments are the later tokens,
\* verbatim and in input order, without the "--" itself; no later token is looked
\* up or raises an error.
C2_Terminator ==
    [][(AtToken /\ Cur = <<"-", "-">>) => StopsWithRest(i + 2)]_vars

\* After "--help --", a second "--help" is an argument.
C2_Witness ==
    /\ pc = "done"
    /\ args = <<Long(nHelp), <<"-", "-">>, Long(nHelp)>>
    /\ Succeeded(result)
    /\ Unwrap(result).value.arguments = <<Long(nHelp)>>
    /\ DOMAIN Unwrap(result).value.options = {nHelp}

\* C3: when the cursor reaches a token that does not start with '-', the parse
\* succeeds with the options recorded so far, and the arguments are that token
\* and every later one, verbatim and in input order; no later token changes the
\* options or raises an error.
C3_FirstPositional ==
    [][(AtToken /\ ~Dash(Cur)) => StopsWithRest(i + 1)]_vars

\* After "-h 1", a second "-h" is an argument.
C3_Witness ==
    /\ pc = "done"
    /\ args = <<Short(<<"h">>), <<"1">>, Short(<<"h">>)>>
    /\ Succeeded(result)
    /\ Unwrap(result).value.arguments = <<<<"1">>, Short(<<"h">>)>>
    /\ DOMAIN Unwrap(result).value.options = {nHelp}

(***************************************************************************)
(* C4                                                                      *)
(***************************************************************************)
\* The parse has returned an error found by the scan (the cursor rests on the
\* token that raised it).
ScanFailed == pc = "done" /\ IsSome(result) /\ ~Unwrap(result).ok /\ IsSome(executable_path)
             /\ DuplicateFree
FailedVariant == Unwrap(result).error.variant

\* The rules that value resolution for d breaks at the token under the cursor.
ResolutionViolations(d) ==
    IF NextIsValue
    THEN (IF Accepts(d, args[i + 2]) THEN {} ELSE {"ValidationError"})
    ELSE IF IsSome(d.default_value)
    THEN (IF Accepts(d, Unwrap(d.default_value)) THEN {} ELSE {"ValidationError"})
    ELSE {"MissingValue"}

\* The rules that character j of the group tok breaks.
CharViolations(tok, j) ==
    LET chars == GroupChars(tok) IN
    IF ~IsFlag(chars[j]) THEN {"UnknownOption"}
    ELSE LET d == DefFlagged(chars[j]) IN
         (IF d.name \in DOMAIN options \/ \E m \in 1..(j - 1) : chars[m] = chars[j]
          THEN {"DuplicateOption"} ELSE {})
         \cup (IF d.has_value /\ j < Len(chars) THEN {"InvalidFlagCombination"} ELSE {})
         \cup (IF d.has_value /\ j = Len(chars) THEN ResolutionViolations(d) ELSE {})

\* The rules that the long-option token tok breaks.
LongViolations(tok) ==
    IF ~IsName(NamePart(tok)) THEN {"UnknownOption"}
    ELSE LET d == DefNamed(NamePart(tok)) IN
         (IF d.name \in DOMAIN options THEN {"DuplicateOption"} ELSE {})
         \cup (IF HasEq(tok)
               THEN (IF ~d.has_value THEN {"ValidationError"}
                     ELSE IF Accepts(d, InlineValue(tok))
                     THEN {} ELSE {"ValidationError"})
               ELSE (IF d.has_value THEN ResolutionViolations(d) ELSE {}))

\* The rules broken at the leftmost place of tok that breaks one: the token
\* itself for a long option, the leftmost offending character for a group.
LeftmostViolations(tok) ==
    IF DashDash(tok) THEN LongViolations(tok)
    ELSE IF \E j \in 1..Len(GroupChars(tok)) : CharViolations(tok, j) # {}
    THEN CharViolations(tok, CHOOSE j \in 1..Len(GroupChars(tok)) :
                                /\ CharViolations(tok, j) # {}
                                /\ \A m \in 1..(j - 1) : CharViolations(tok, m) = {})
    ELSE {}

\* The error came out of value resolution, which reads the token after the
\* cursor (or finds that there is none).
ReadNextToken ==
    /\ FailedVariant \in {"MissingValue", "ValidationError"}
    /\ ~(DashDash(Cur) /\ HasEq(Cur))

\* The number of tokens the scan had read when it returned the error.
TokensRead == IF ReadNextToken /\ i + 2 <= Len(args) THEN i + 2 ELSE i + 1

\* Tokens put to the right of the tokens read.
ProbeTokens ==
    { <<"-", "-">>, <<"-">>, <<"1">>, <<"0">>, Long(nHelp), Short(<<"h">>),
      Long(nUnknown), Short(<<"x">>), LongEq(nHelp, <<"1">>), Short(<<"f", "m">>),
      Long(nFile), Short(<<"z">>) }
ProbeTails == SeqsUpTo(ProbeTokens, 1)

C5_CatalogDuplicates ==
    /\ (pc = "done" /\ ~DuplicateFree) => Failed(result, "DuplicateOption")
    /\ (pc # "start" /\ DuplicateFree /\ IsSome(executable_path)) =>
           /\ DOMAIN by_flag = { d.flag : d \in Defs }
           /\ DOMAIN by_name = { d.name : d \in Defs }

\* The part of C5 that the code keeps: the same, for the argument sequences
\* that have an executable path.
C5_CatalogDuplicatesNonEmptyInput ==
    /\ (pc = "done" /\ ~DuplicateFree /\ IsSome(executable_path)) =>
           Failed(result, "DuplicateOption")
    /\ (pc # "start" /\ DuplicateFree /\ IsSome(executable_path)) =>
           /\ DOMAIN by_flag = { d.flag : d \in Defs }
           /\ DOMAIN by_name = { d.name : d \in Defs }

(***************************************************************************)
(* C6                                                                      *)
(***************************************************************************)
\* Character j of the group under the cursor is a flag of the catalog.
GroupFlag(j) == GroupReaches(j) /\ IsFlag(GroupChars(Cur)[j])
GroupDef(j) == DefFlagged(GroupChars(Cur)[j])

\* Character j of the group under the cursor names an option that is recorded
\* already, by an earlier token or by an earlier character of the group.
GroupRepeats(j) ==
    /\ GroupFlag(j)
    /\ \/ GroupDef(j).name \in DOMAIN options
       \/ \E m \in 1..(j - 1) : GroupChars(Cur)[m] = GroupChars(Cur)[j]

\* C6: when the scan gets to a trigger (a long name, or a character of a group
\* whose earlier characters were recorded) of an option that is already recorded
\* by an earlier token in either form or earlier in the same group, the parse
\* fails with DuplicateOption; at "--" and at the first positional token the
\* parse succeeds whatever the later tokens repeat.
C6_RepeatedOption ==
    [][/\ (LongToken /\ IsName(NamePart(Cur)) /\ NamePart(Cur) \in DOMAIN options)
            => Failed(result', "DuplicateOption")
       /\ \A j \in GroupPositions :
              GroupRepeats(j) => Failed(result', "DuplicateOption")
       /\ (AtToken /\ (Cur = <<"-", "-">> \/ ~Dash(Cur))) => Succeeded(result')
      ]_vars

\* "-h" and then "--help": the short and the long form of one option.
C6_Witness ==
    /\ pc = "done"
    /\ args = <<Short(<<"h">>), Long(nHelp)>>
    /\ Failed(result, "DuplicateOption")
    /\ Unwrap(result).error.payload = nHelp

(***************************************************************************)
(* C7                                                                      *)
(***************************************************************************)
\* Every character of the group under the cursor is the flag of an option that
\* takes no value, all distinct and none recorded before.
BareGroup ==
    /\ GroupReaches(Len(GroupChars(Cur)))
    /\ GroupFlag(Len(GroupChars(Cur)))
    /\ ~GroupRepeats(Len(GroupChars(Cur)))
    /\ ~GroupDef(Len(GroupChars(Cur))).has_value

\* The options of the characters before position j of the group.
GroupNamesBefore(j) == { DefFlagged(GroupChars(Cur)[k]).name : k \in 1..(j - 1) }

\* C7: the characters of a group are resolved from left to right.  A flag of a
\* value-taking option, reached before the last position (and not a repeat),
\* makes the parse fail with InvalidFlagCombination, so the rest of the group
\* is never its value; a group of flags that take no value records each of them
\* without a value and moves the cursor by one; a value-taking flag in last
\* position resolves its value by the value resolution rule, and the flags
\* before it are recorded without a value.
C7_ShortFlagGroups ==
    [][/\ \A j \in GroupPositions :
              (GroupFlag(j) /\ ~GroupRepeats(j) /\ GroupDef(j).has_value
                 /\ j < Len(GroupChars(Cur)))
              => Failed(result', "InvalidFlagCombination")
       /\ BareGroup =>
              /\ pc' = "scan"
              /\ i' = i + 1
              /\ DOMAIN options' = DOMAIN options \cup GroupNamesBefore(Len(GroupChars(Cur)) + 1)
              /\ \A n \in GroupNamesBefore(Len(GroupChars(Cur)) + 1) : options'[n] = None
              /\ \A n \in DOMAIN options : options'[n] = options[n]
       /\ \A d \in Defs :
              (GroupToken /\ ResolvesValue(d)) =>
                  /\ ValueResolutionStep(d)
                  /\ pc' = "scan" =>
                        /\ DOMAIN options' = DOMAIN options
                              \cup GroupNamesBefore(Len(GroupChars(Cur))) \cup {d.name}
                        /\ \A n \in GroupNamesBefore(Len(GroupChars(Cur))) :
                               options'[n] = None
      ]_vars

\* "-f1": the 1 attached to the value-taking f is not taken as its value.
C7_Witness ==
    /\ pc = "done"
    /\ args = <<Short(<<"f", "1">>)>>
    /\ FileOption \in Defs
    /\ Failed(result, "InvalidFlagCombination")

(***************************************************************************)
(* C8                                                                      *)
(***************************************************************************)
\* C8: a long-option token under the cursor whose name part is not a name of
\* the catalog, and a character of a group (its earlier characters recorded)
\* that is not a flag of the catalog, make the parse fail with UnknownOption:
\* the token is neither skipped nor taken as an argument.
C8_UnknownTriggers ==
    [][/\ (LongToken /\ ~IsName(NamePart(Cur))) => Failed(result', "UnknownOption")
       /\ \A j \in GroupPositions :
              (GroupReaches(j) /\ ~IsFlag(GroupChars(Cur)[j]))
              => Failed(result', "UnknownOption")
      ]_vars

\* "-mx": m is recorded, x is not a flag of the catalog.
C8_Witness ==
    /\ pc = "done"
    /\ args = <<Long(nHelp), Short(<<"m", "x">>)>>
    /\ Failed(result, "UnknownOption")
    /\ Unwrap(result).error.payload = <<"-", "x">>

(***************************************************************************)
(* C9                                                                      *)
(***************************************************************************)
\* The value determined for d at the token under the cursor, if any: given
\* inline, or found by value resolution (the next token, else the default).
DeterminedValue(d) ==
    IF ~(d \in Defs /\ d.has_value /\ AtToken) THEN None
    ELSE IF d.name \in DOMAIN options THEN None
    ELSE IF LongToken /\ HasEq(Cur) /\ NamePart(Cur) = d.name
    THEN Some(InlineValue(Cur))
    ELSE IF ResolvesValue(d)
    THEN (IF NextIsValue THEN Some(args[i + 2]) ELSE d.default_value)
    ELSE None

\* C9: whenever a value is determined for an option that has a validator,
\* inline, from the next token or from the default, the validator is applied to
\* it: a rejected value makes the parse return ValidationError with the
\* validator's error and no ParsedCommand, whatever was recorded before; an
\* accepted value is recorded.
C9_ValidationAllOrNothing ==
    [][\A d \in Defs :
          (IsSome(d.validator) /\ IsSome(DeterminedValue(d))) =>
              IF CallValidator(Unwrap(d.validator), Unwrap(DeterminedValue(d))).ok
              THEN /\ pc' = "scan"
                   /\ d.name \in DOMAIN options'
                   /\ options'[d.name] = DeterminedValue(d)
              ELSE /\ pc' = "done"
                   /\ result' = Some(Err(ParseError("ValidationError",
                          CallValidator(Unwrap(d.validator),
                                        Unwrap(DeterminedValue(d))).error)))
      ]_vars

\* With "width" recorded from its default, "-hl 0" hands 0 to the validator of
\* "lines", and nothing is returned but the error.
C9_Witness ==
    /\ pc = "done"
    /\ args = <<Short(<<"w">>), Short(<<"h", "l">>), <<"0">>>>
    /\ DOMAIN options = {nWidth}
    /\ Failed(result, "ValidationError")
    /\ Unwrap(result).error.payload = <<"Value must be greater than zero">>

(***************************************************************************)
(* C10                                                                     *)
(***************************************************************************)
\* The token tok ends in a value-taking option without an inline value.
TakesNextToken(tok) ==
    \/ /\ DashDash(tok) /\ Len(tok) > 2 /\ ~HasEq(tok)
       /\ IsName(NamePart(tok)) /\ DefNamed(NamePart(tok)).has_value
    \/ /\ Dash(tok) /\ Len(tok) > 1 /\ ~DashDash(tok)
       /\ IsFlag(tok[Len(tok)]) /\ DefFlagged(tok[Len(tok)]).has_value

\* Token k is the value of the option token before it.
IsValueOf(k) == k > 1 /\ ~Dash(args[k]) /\ TakesNextToken(args[k - 1])

\* Token k ends the scan: "--", or a positional token.
StopsScan(k) ==
    \/ args[k] = <<"-", "-">>
    \/ args[k] = <<"-">>
    \/ ~Dash(args[k]) /\ ~IsValueOf(k)

\* The positions of the option tokens the scan reaches.
ScannedOptionTokens ==
    { k \in 1..Len(args) : Dash(args[k]) /\ \A m \in 1..k : ~StopsScan(m) }

\* The names of the options whose long or short trigger the scan reaches.
MentionedOptions ==
    { NamePart(args[k]) : k \in { m \in ScannedOptionTokens : DashDash(args[m]) } }
    \cup { DefFlagged(fc[2]).name :
             fc \in { kc \in ScannedOptionTokens \X { d.flag : d \in Defs } :
                        /\ ~DashDash(args[kc[1]])
                        /\ \E c \in 2..Len(args[kc[1]]) : args[kc[1]][c] = kc[2] } }

\* C10: in a returned ParsedCommand the keys of options are exactly the options
\* whose long or short trigger the scan reached before "--" or the first
\* positional token; an option that the input does not mention is not a key,
\* also when its definition has a default.
C10_NoDefaultBackfill ==
    (pc = "done" /\ Succeeded(result)) =>
        DOMAIN Unwrap(result).value.options = MentionedOptions

\* "-h" alone: "output" has a default and is not a key.
C10_Witness ==
    /\ pc = "done"
    /\ args = <<Short(<<"h">>)>>
    /\ OutputOption \in Defs
    /\ IsSome(OutputOption.default_value)
    /\ Succeeded(result)
    /\ DOMAIN Unwrap(result).value.options = {nHelp}

(***************************************************************************)
(* C11                                                                     *)
(***************************************************************************)
\* C11: in every returned ParsedCommand, every key of options is the name of a
\* definition of the catalog, and its entry is Some(value) exactly when that
\* definition takes a value and None exactly when it does not.
C11_ValueShape ==
    (pc = "done" /\ Succeeded(result)) =>
        \A n \in DOMAIN Unwrap(result).value.options :
            /\ IsName(n)
            /\ IsSome(Unwrap(result).value.options[n]) <=> DefNamed(n).has_value
            /\ Unwrap(result).value.options[n] = None <=> ~DefNamed(n).has_value

\* "-o" took its default and "-h" is a bare flag: one entry of each shape.
C11_Witness ==
    /\ pc = "done"
    /\ args = <<Short(<<"o">>), Short(<<"h">>)>>
    /\ Succeeded(result)
    /\ Unwrap(result).value.options[nOutput] = OutputOption.default_value
    /\ Unwrap(result).value.options[nHelp] = None

(***************************************************************************)
(* C12                                                                     *)
(***************************************************************************)
\* The input is [exe, "--n", v] followed by a tail, for the value-taking
\* option d and a non-empty v that does not start with '-'.
LongThenValue(d) ==
    /\ d \in Defs
    /\ d.has_value
    /\ Len(Input) >= 3
    /\ Input[2] = Long(d.name)
    /\ Input[3] # <<>>
    /\ ~Dash(Input[3])

\* The same input with the value given inline, and with the short flag.
InlineForm(d) == <<Input[1], LongEq(d.name, Input[3])>> \o SubSeq(Input, 4, Len(Input))
ShortForm(d) == <<Input[1], Short(<<d.flag>>), Input[3]>> \o SubSeq(Input, 4, Len(Input))

\* The value is valid UTF-8.
ValidUtf8(tok) == \A k \in 1..Len(tok) : tok[k] # InvalidByte

\* C12: for a value-taking option with flag f and name n and a non-empty value
\* v that does not start with '-', the inputs [exe, "--n=v"], [exe, "--n", v]
\* and [exe, "-f", v], followed by the same tail, have the same result.
C12_EquivalentSyntaxes ==
    (pc = "done" /\ DuplicateFree) =>
        \A d \in Defs :
            LongThenValue(d) =>
                /\ parse_command_line(option_definitions, InlineForm(d)) = Unwrap(result)
                /\ parse_command_line(option_definitions, ShortForm(d)) = Unwrap(result)

\* The part of C12 that the code keeps: the same, for the values that are
\* valid UTF-8.
C12_EquivalentSyntaxesUtf8 ==
    (pc = "done" /\ DuplicateFree) =>
        \A d \in Defs :
            (LongThenValue(d) /\ ValidUtf8(Input[3])) =>
                /\ parse_command_line(option_definitions, InlineForm(d)) = Unwrap(result)
                /\ parse_command_line(option_definitions, ShortForm(d)) = Unwrap(result)

\* The value syntaxes with a value that is not valid UTF-8: "--file" "<FF>"
\* records the value as it is, and "--file=<FF>" records U+FFFD.
C12_LossyInlineValue ==
    /\ pc = "done"
    /\ args = <<Long(nFile), <<InvalidByte>>>>
    /\ Succeeded(result)
    /\ Unwrap(result).value.options[nFile] = Some(<<InvalidByte>>)
    /\ parse_command_line(option_definitions, InlineForm(FileOption)).value.options[nFile]
         = Some(<<ReplacementChar>>)

(***************************************************************************)
(* C13                                                                     *)
(***************************************************************************)
\* The token under the cursor is "--name=value" for the option d, which takes
\* no value and is not recorded yet.
InlineToBareFlag(d) ==
    /\ d \in Defs
    /\ ~d.has_value
    /\ LongToken
    /\ HasEq(Cur)
    /\ NamePart(Cur) = d.name
    /\ d.name \notin DOMAIN options

\* C13: a token "--name=value", with any value (the empty one included), for a
\* catalog option that takes no value and is not recorded yet makes the parse
\* fail with ValidationError ("does not accept a value"): the option is not
\* recorded and the scan does not go on.
C13_InlineValueToBareFlag ==
    [][\A d \in Defs :
          InlineToBareFlag(d) =>
              /\ pc' = "done"
              /\ options' = options
              /\ result' = Some(Err(ParseError("ValidationError",
                     <<"Option '">> \o d.name \o <<"' does not accept a value">>)))
      ]_vars

\* "--help=" with the empty value, after a recorded option.
C13_Witness ==
    /\ pc = "done"
    /\ args = <<Short(<<"f">>), <<"1">>, LongEq(nHelp, <<>>)>>
    /\ DOMAIN options = {nFile}
    /\ Failed(result, "ValidationError")
    /\ Unwrap(result).error.payload
         = <<"Option '">> \o nHelp \o <<"' does not accept a value">>

(***************************************************************************)
(* C14                                                                     *)
(***************************************************************************)
\* C14: parse_command_line called with the empty argument sequence returns
\* UnknownOption, with a payload that says that no executable path was
\* provided, for every catalog; it never returns a ParsedCommand.
C14_EmptyInput ==
    (pc = "done" /\ Input = <<>>) =>
        /\ ~Succeeded(result)
        /\ result = Some(Err(ParseError("UnknownOption",
                                        <<"No executable path provided">>)))

\* The empty argument sequence, with a catalog that has a duplicate flag.
C14_Witness ==
    /\ pc = "done"
    /\ Input = <<>>
    /\ ~DuplicateFree
    /\ Failed(result, "UnknownOption")

(***************************************************************************)
(* C15                                                                     *)
(***************************************************************************)
\* First tokens that look like options, put in the place of the executable
\* path.
ProbePaths == { Long(nHelp), Short(<<"x">>), <<"-", "-">>, Long(nUnknown) }

\* Two results are the same but for the executable path.
SameButPath(a, b) ==
    /\ a.ok = b.ok
    /\ IF a.ok
       THEN /\ a.value.options = b.value.options
            /\ a.value.arguments = b.value.arguments
       ELSE a = b

\* C15: for a duplicate-free catalog, the one-element input [t] is parsed to
\* executable_path = t with no options and no arguments, whatever t looks
\* like; and in a longer input the first token is returned as executable_path
\* and contributes nothing else: with any other first token the options, the
\* arguments and the error are the same.
C15_ExecutablePath ==
    (pc = "done" /\ DuplicateFree /\ Input # <<>>) =>
        /\ Len(Input) = 1 =>
              result = Some(Ok(ParsedCommand(Input[1], EmptyMap, <<>>)))
        /\ Succeeded(result) => Unwrap(result).value.executable_path = Input[1]
        /\ \A p \in ProbePaths :
              /\ SameButPath(parse_command_line(option_definitions, <<p>> \o Tail(Input)),
                             Unwrap(result))
              /\ parse_command_line(option_definitions, <<p>> \o Tail(Input)).ok =>
                    parse_command_line(option_definitions,
                        <<p>> \o Tail(Input)).value.executable_path = p

\* The input is "--help" alone: it is the executable path, and the option help
\* is not recorded.
C15_Witness ==
    /\ pc = "done"
    /\ Input = <<Long(nHelp)>>
    /\ IsName(nHelp)
    /\ result = Some(Ok(ParsedCommand(Long(nHelp), EmptyMap, <<>>)))

StoresValue(n) == n \in DOMAIN Self.options /\ Self.options[n] # None

\* What the last query must have returned, read from the mapping itself.
QueryReturnsRight ==
    IsSome(query) =>
        LET q == Unwrap(query) IN
        CASE q.method = "is_option_set" ->
                 q.returned = (q.name \in DOMAIN Self.options)
          [] q.method = "option_value" ->
                 q.returned = (IF StoresValue(q.name) THEN Self.options[q.name] ELSE None)
          [] q.method = "option_value_or_default" ->
                 q.returned = (IF StoresValue(q.name) THEN Unwrap(Self.options[q.name])
                               ELSE Unwrap(q.default))
          [] q.method = "has_option_value" ->
                 q.returned = StoresValue(q.name)

\* C17: for every options mapping and every name n, is_option_set(n) holds iff
\* n is a key; has_option_value(n) holds iff option_value(n) is Some, and then
\* is_option_set(n) holds; option_value_or_default(n, d) is the stored value
\* when has_option_value(n) holds and d otherwise, for a name that is not a
\* key and for a key without a value alike.
C17_QueriesConsistent ==
    /\ QueryReturnsRight
    /\ \A n \in QueryNames :
          /\ is_option_set(Self, n) <=> n \in DOMAIN Self.options
          /\ has_option_value(Self, n) <=> IsSome(option_value(Self, n))
          /\ has_option_value(Self, n) => is_option_set(Self, n)
          /\ \A d \in QueryDefaults :
                option_value_or_default(Self, n, d)
                  = IF has_option_value(Self, n) THEN Unwrap(Self.options[n]) ELSE d

\* A key without a value was asked for with a default, and the default came
\* back, while another key of the same mapping holds the empty string.
C17_Witness ==
    /\ IsSome(query)
    /\ Unwrap(query).method = "option_value_or_default"
    /\ Unwrap(query).name = nHelp
    /\ nHelp \in DOMAIN Self.options
    /\ Self.options[nHelp] = None
    /\ nFile \in DOMAIN Self.options
    /\ Self.options[nFile] = Some(<<>>)
    /\ Unwrap(query).returned = <<"d", "e", "f", "a", "u", "l", "t">>

(***************************************************************************)
(* C18                                                                     *)
(***************************************************************************)
RECURSIVE Lines(_, _, _)
\* The lines of a text: the pieces between line feeds, from piece k on, with
\* line the pieces of the line that is being read.
Lines(text, k, line) ==
    IF k > Len(text) THEN (IF line = <<>> THEN <<>> ELSE <<line>>)
    ELSE IF text[k] = LineFeed THEN <<line>> \o Lines(text, k + 1, <<>>)
    ELSE Lines(text, k + 1, Append(line, text[k]))

\* The lines of the text that generate_help returned.
HelpLines == Lines(Unwrap(help).text, 1, <<>>)

\* The line shows the flag and the name of the definition d, and its help text
\* after them.
ShowsDefinition(line, d) ==
    LET flags == <<" ", " ", "-", d.flag, ",", " ", "-", "-">> \o d.name IN
    /\ Len(line) > Len(flags)
    /\ SubSeq(line, 1, Len(flags)) = flags
    /\ line[Len(flags) + 1] = " "
    /\ line[Len(line)] = d.help_text[1]

\* C18: the text of generate_help is the usage line, a blank line, the
\* description line, a blank line, the line "Options:" and then exactly one
\* line for each definition of the catalog, the k-th line showing the flag and
\* the name of the k-th definition, for every catalog (the empty one
\* included) and whatever parse result the caller holds.
C18_HelpOrder ==
    IsSome(help) =>
        /\ Len(HelpLines) = 5 + Len(option_definitions)
        /\ HelpLines[1] = <<"Usage: ">> \o Unwrap(help).command_name \o <<" ">>
                          \o Unwrap(help).usage_pattern
        /\ HelpLines[2] = <<>>
        /\ HelpLines[3] = Unwrap(help).description
        /\ HelpLines[4] = <<>>
        /\ HelpLines[5] = <<"Options:">>
        /\ \A k \in 1..Len(option_definitions) :
              ShowsDefinition(HelpLines[5 + k], option_definitions[k])

\* The catalog [file, help, file] is rendered while the caller holds a parse
\* result: three option lines, in the order of the catalog.
C18_Witness ==
    /\ IsSome(help)
    /\ IsSome(result)
    /\ Len(option_definitions) = 3
    /\ option_definitions[1].name = nFile
    /\ option_definitions[2].name = nHelp
    /\ option_definitions[3].name = nFile
    /\ Len(HelpLines) = 8
    /\ ShowsDefinition(HelpLines[6], option_definitions[1])
    /\ ShowsDefinition(HelpLines[7], option_definitions[2])

(***************************************************************************)
(* C19                                                                     *)
(***************************************************************************)
\* The options that take no value and that the step records.
BareFlagsRecorded ==
    { n \in DOMAIN options' : /\ n \notin DOMAIN options
                              /\ IsName(n)
                              /\ ~DefNamed(n).has_value }

\* The step of the scan records an option that takes no value.
RecordsBareFlag == AtToken /\ pc' = "scan" /\ BareFlagsRecorded # {}

\* The token under the cursor is "--name" for an option that takes no value
\* and is not recorded yet.
BareLong ==
    /\ LongToken
    /\ ~HasEq(Cur)
    /\ IsName(NamePart(Cur))
    /\ ~DefNamed(NamePart(Cur)).has_value
    /\ NamePart(Cur) \notin DOMAIN options

\* The cursor moves by exactly one token, the flags are recorded without a
\* value, and a following token that does not start with '-' is the first
\* positional argument of the result.
LeavesNextToken ==
    /\ pc' = "scan"
    /\ i' = i + 1
    /\ \A n \in BareFlagsRecorded : options'[n] = None
    /\ NextIsValue =>
          parse_command_line(option_definitions, Input)
            = Ok(ParsedCommand(Unwrap(executable_path), options',
                               SubSeq(args, i + 2, Len(args))))

\* C19 as stated: after the scan records an option that takes no value, from
\* "--name" or from any position of a short-flag group, the cursor has moved
\* by exactly one token, and a following token that does not start with '-' is
\* the first positional argument and is not stored as a value.
C19_BareFlagsNeverConsume ==
    [][RecordsBareFlag => LeavesNextToken]_vars

\* C19, for the tokens that hold no value-taking option: at "--name" of an
\* unrecorded option that takes no value, and at a short-flag group of distinct
\* unrecorded flags none of which takes a value, the options are recorded
\* without a value, the cursor moves by exactly one token, and a following
\* token that does not start with '-' is the first positional argument.
C19_BareTokensNeverConsume ==
    [][(BareLong \/ BareGroup) => (BareFlagsRecorded # {} /\ LeavesNextToken)]_vars

\* "-hm 1 -h": the group is recorded and "1" is the first argument.
C19_Witness ==
    /\ pc = "done"
    /\ args = <<Short(<<"h", "m">>), <<"1">>, Short(<<"h">>)>>
    /\ Succeeded(result)
    /\ Unwrap(result).value.options = [n \in {nHelp, nMode} |-> None]
    /\ Unwrap(result).value.arguments = <<<<"1">>, Short(<<"h">>)>>

\* "-mf 1": the flag m is recorded from the first position of the group, and
\* the cursor moves by two tokens, the 1 being the value of f.
C19_GroupEndsInValue ==
    /\ pc = "scan"
    /\ args = <<Short(<<"m", "f">>), <<"1">>>>
    /\ i = 2
    /\ options = [n \in {nMode, nFile} |-> IF n = nFile THEN Some(<<"1">>) ELSE None]

(***************************************************************************)
(* C20                                                                     *)
(***************************************************************************)
\* C20: when the cursor reaches a token that is exactly "-", the token is not
\* looked up as a short-flag group and raises no error: the parse succeeds
\* with the options recorded so far, and the arguments are the "-" and every
\* later token, verbatim and in input order.
C20_BareDashPositional ==
    [][(AtToken /\ Cur = <<"-">>) =>
           /\ StopsWithRest(i + 1)
           /\ Unwrap(result').value.arguments[1] = <<"-">>]_vars

\* "-h - -h": the dash and the "-h" after it are the arguments.
C20_Witness ==
    /\ pc = "done"
    /\ args = <<Short(<<"h">>), <<"-">>, Short(<<"h">>)>>
    /\ Succeeded(result)
    /\ DOMAIN Unwrap(result).value.options = {nHelp}
    /\ Unwrap(result).value.arguments = <<<<"-">>, Short(<<"h">>)>>

(***************************************************************************)
(* C21                                                                     *)
(***************************************************************************)
\* What follows the first '=' of a long-option token, as it is in the token.
Rest(tok) == SubSeq(tok, Len(NamePart(tok)) + 4, Len(tok))

\* The token under the cursor is "--name=rest" for the value-taking option d,
\* which is not recorded yet.
InlineToValueOption(d) ==
    /\ d \in Defs
    /\ d.has_value
    /\ LongToken
    /\ HasEq(Cur)
    /\ NamePart(Cur) = d.name
    /\ d.name \notin DOMAIN options

\* The step takes v as the value of d without consuming the following token:
\* v goes to the validator of d, if any, and is recorded when it is accepted.
TakesInline(d, v) ==
    IF Accepts(d, v)
    THEN /\ pc' = "scan"
         /\ i' = i + 1
         /\ options' = Insert(options, d.name, Some(v))
    ELSE /\ pc' = "done"
         /\ result' = Some(Err(ParseError("ValidationError",
                CallValidator(Unwrap(d.validator), v).error)))

\* C21: at a token "--name=rest" for a value-taking catalog option that is not
\* recorded yet, the token is split at its first '=' and the value of the
\* option is exactly rest, unchanged, be it empty, starting with '-' or
\* holding further '=' characters; the following token is not consumed.
C21_InlineValueAsIs ==
    [][\A d \in Defs : InlineToValueOption(d) => TakesInline(d, Rest(Cur))]_vars

\* The part of C21 that the code keeps: the same, for a rest that is valid
\* UTF-8.
C21_InlineValueAsIsUtf8 ==
    [][\A d \in Defs :
          (InlineToValueOption(d) /\ ValidUtf8(Rest(Cur))) => TakesInline(d, Rest(Cur))
      ]_vars

\* "--file=<FF>": the recorded value is U+FFFD and not the byte of the token.
C21_LossyRest ==
    /\ pc = "scan"
    /\ args = <<LongEq(nFile, <<InvalidByte>>)>>
    /\ i = 1
    /\ options = [n \in {nFile} |-> Some(<<ReplacementChar>>)]

\* "--file=1=1" and then "1": the value is "1=1" and the "1" is an argument.
C21_FurtherEq ==
    /\ pc = "done"
    /\ args = <<LongEq(nFile, <<"1", "=", "1">>), <<"1">>>>
    /\ Succeeded(result)
    /\ Unwrap(result).value.options = [n \in {nFile} |-> Some(<<"1", "=", "1">>)]
    /\ Unwrap(result).value.arguments = <<<<"1">>>>

(***************************************************************************)
(* C22                                                                     *)
(***************************************************************************)
\* The options that the step records with a value that starts with '-'.
DashValuesRecorded ==
    { n \in DOMAIN options' : /\ n \notin DOMAIN options
                              /\ IsSome(options'[n])
                              /\ Dash(Unwrap(options'[n])) }

\* C22: a value that starts with '-' gets into options only as the inline
\* value of a token "--n=v" or as the default of the option n, and in both
\* cases no further token is consumed: a separate next token that starts with
\* '-' is never recorded as a value.
C22_DashLeadingValues ==
    [][\A n \in DashValuesRecorded :
          /\ i' = i + 1
          /\ \/ /\ LongToken /\ HasEq(Cur) /\ NamePart(Cur) = n
                /\ InlineValue(Cur) = Unwrap(options'[n])
             \/ /\ IsName(n)
                /\ DefNamed(n).default_value = options'[n]
                /\ ~(LongToken /\ HasEq(Cur))
                /\ ~NextIsValue
      ]_vars

\* "-i -": the option input takes its default "-", and the token "-" that
\* follows is an argument; "--file=-1" is the other way to such a value.
C22_Witness ==
    /\ pc = "done"
    /\ args = <<Short(<<"i">>), <<"-">>>>
    /\ Succeeded(result)
    /\ Unwrap(result).value.options = [n \in {nInput} |-> Some(<<"-">>)]
    /\ Unwrap(result).value.arguments = <<<<"-">>>>

\* "--input=-1" "-i": the inline value starts with '-'.
C22_InlineDash ==
    /\ pc = "done"
    /\ args = <<LongEq(nInput, <<"-", "1">>), Short(<<"h">>)>>
    /\ Succeeded(result)
    /\ Unwrap(result).value.options[nInput] = Some(<<"-", "1">>)

(***************************************************************************)
(* C23                                                                     *)
(***************************************************************************)
\* The options with a validator for which the token under the cursor
\* determines a value.
ValidatedHere ==
    { d \in Defs : IsSome(d.validator) /\ IsSome(DeterminedValue(d)) }

\* The invocations that are due at the token under the cursor.
CallsDue ==
    IF ValidatedHere = {} THEN <<>>
    ELSE LET d == CHOOSE d \in ValidatedHere : TRUE IN
         << ValidatorCall(Unwrap(d.validator), Unwrap(DeterminedValue(d))) >>

\* C23: during one parse a validator is invoked exactly once, with the value,
\* for each occurrence of an option with a validator whose value is
\* determined, and not otherwise: not for an option that takes no value, not
\* at "--" or at a positional token, not for the executable path, and not
\* after the parse has returned.
C23_ValidatorInvocations ==
    [][/\ Cardinality(ValidatedHere) <= 1
       /\ pc = "start" => validator_calls' = <<>>
       /\ pc = "scan" => validator_calls' = validator_calls \o CallsDue
       /\ pc = "done" => validator_calls' = validator_calls
      ]_vars

\* "-w -hl 0": one call for the default of width, one for the 0 of lines, which
\* is rejected, and none for help.
C23_Witness ==
    /\ pc = "done"
    /\ args = <<Short(<<"w">>), Short(<<"h", "l">>), <<"0">>>>
    /\ Failed(result, "ValidationError")
    /\ validator_calls = << ValidatorCall("validate_positive_integer", <<"1">>),
                            ValidatorCall("validate_positive_integer", <<"0">>) >>

(***************************************************************************)
(* C24                                                                     *)
(***************************************************************************)
\* The catalog of the scenario that option_definitions is a reordering of.
ReferenceCatalog ==
    (CHOOSE s \in OrderScenarios :
        { s.catalog[k] : k \in 1..Len(s.catalog) } = Defs).catalog

\* C24: for a duplicate-free catalog and every argument sequence, the result
\* of the parse is the same for every order of the definitions of the
\* catalog: the same options and arguments, or the same error.
C24_CatalogOrder ==
    (pc = "done" /\ DuplicateFree) =>
        result = Some(parse_command_line(ReferenceCatalog, Input))

\* "-hm" with the catalog in the order output, lines, mode, help.
C24_Witness ==
    /\ pc = "done"
    /\ option_definitions = <<OutputOption, LinesOption, ModeOption, standard_options[1]>>
    /\ args = <<Short(<<"h", "m">>), Long(nLines), <<"1">>>>
    /\ Succeeded(result)
    /\ Unwrap(result).value.options
         = [n \in {nHelp, nMode, nLines} |-> IF n = nLines THEN Some(<<"1">>) ELSE None]

(***************************************************************************)
(* C25                                                                     *)
(***************************************************************************)
\* Token m is an option token: a long option or a group of short flags.
IsOptionToken(m) == Dash(args[m]) /\ Len(args[m]) > 1 /\ args[m] # <<"-", "-">>

\* The name of the option that takes the token after tok as its value.
ValueTaker(tok) ==
    IF DashDash(tok) THEN NamePart(tok) ELSE DefFlagged(tok[Len(tok)]).name

\* Token m is recorded as the value of the option token immediately before it.
IsRecordedValue(m) ==
    /\ IsValueOf(m)
    /\ IsOptionToken(m - 1)
    /\ ContainsKey(Unwrap(result).value.options, ValueTaker(args[m - 1]))
    /\ Unwrap(result).value.options[ValueTaker(args[m - 1])] = Some(args[m])

\* The number of the roles token m has among the first k tokens: option token,
\* value of the option token before it, or "--" as the last of the k.
Roles(m, k) ==
    Cardinality({ r \in {"option", "value", "terminator"} :
        \/ r = "option" /\ IsOptionToken(m)
        \/ r = "value" /\ IsRecordedValue(m)
        \/ r = "terminator" /\ args[m] = <<"-", "-">> /\ m = k })

\* The first k tokens are consumed by the scan and the rest is arguments.
SplitsAt(k) ==
    /\ Unwrap(result).value.arguments = SliceFrom(args, k)
    /\ \A m \in 1..k : Roles(m, k) = 1
    /\ k < Len(args) =>
          \/ k >= 1 /\ args[k] = <<"-", "-">>
          \/ ~IsOptionToken(k + 1) /\ args[k + 1] # <<"-", "-">> /\ ~IsValueOf(k + 1)

\* C25: in a successful parse the tokens after the executable path split into
\* consumed tokens and arguments: arguments is the rest of the input from some
\* token on, in input order, not empty only after "--" or from a positional
\* token on; each token before it is, in exactly one way, an option token,
\* the recorded value of the option token immediately before it, or "--".
C25_TokenAccounting ==
    (pc = "done" /\ Succeeded(result)) => \E k \in 0..Len(args) : SplitsAt(k)

\* "-f 1 1": the first "1" is the value of file and only the second is an
\* argument.
C25_Witness ==
    /\ pc = "done"
    /\ args = <<Short(<<"f">>), <<"1">>, <<"1">>>>
    /\ Succeeded(result)
    /\ SplitsAt(2)
    /\ IsRecordedValue(2)
    /\ Unwrap(result).value.arguments = << <<"1">> >>

(***************************************************************************)
(* C26                                                                     *)
(***************************************************************************)
\* Some branch of the loop body applies to the token tok.
HasBranch(tok) == IsTerminator(tok) \/ IsLong(tok) \/ IsShort(tok) \/ IsPositional(tok)

\* C26: the scan ends and never goes back: the cursor is larger after every
\* iteration that stays in the loop, it never passes the number of tokens
\* (also when the last token is a value-taking option that looks at the token
\* after it), the loop body is entered at most once per token, and a parse
\* that stays in the loop has a branch of the loop body for the token under
\* the cursor or leaves the loop for the return; a parse is over exactly when
\* it has its result, a ParsedCommand or an error.
C26_ScanTerminates ==
    [][/\ pc = "scan" /\ pc' = "scan" => i' > i
       /\ i' <= Len(args')
       /\ iterations' <= Len(args')
       /\ pc' = "scan" /\ i' < Len(args') => HasBranch(args'[i' + 1])
       /\ pc' = "done" <=> IsSome(result')
       /\ pc' # "start"
      ]_vars

\* "-h --output": the last token takes a value, finds no next token and takes
\* its default; two tokens, two iterations, the cursor ends on 2.
C26_Witness ==
    /\ pc = "done"
    /\ args = <<Short(<<"h">>), Long(nOutput)>>
    /\ Succeeded(result)
    /\ Unwrap(result).value.options[nOutput] = OutputOption.default_value
    /\ i = Len(args)
    /\ iterations = Len(args)

====
